---- MODULE Spec2Model ----
(***************************************************************************)
(* StringWrapper (src/lib.rs): a fixed-capacity string made of a length    *)
(* and a backing byte buffer.  Bytes are integers 0..255, chars are        *)
(* Unicode scalar values, a &str is the byte sequence of its encoding.     *)
(***************************************************************************)
EXTENDS Integers, Sequences, FiniteSets, TLC

VARIABLES sw, other, last

vars == <<sw, other, last>>

\* ---------------------------------------------------------------- bounds
MaxCap == 3
MaxStrChars == 2
CmpCap == 2

\* ---------------------------------------------------------------- inputs
\* 'a', U+00E9, U+20AC, U+1F320: one char of every encoded length
Chars == {97, 233, 8364, 127776}
\* bytes a caller-supplied buffer may hold: NUL and a continuation byte
InitBytes == {0, 169}

\* ---------------------------------------------------------------- chars
len_utf8(c) ==
  IF c < 128 THEN 1 ELSE IF c < 2048 THEN 2 ELSE IF c < 65536 THEN 3 ELSE 4

encode_utf8(c) ==
  IF c < 128 THEN <<c>>
  ELSE IF c < 2048 THEN <<192 + (c \div 64), 128 + (c % 64)>>
  ELSE IF c < 65536 THEN
    <<224 + (c \div 4096), 128 + ((c \div 64) % 64), 128 + (c % 64)>>
  ELSE
    <<240 + (c \div 262144), 128 + ((c \div 4096) % 64),
      128 + ((c \div 64) % 64), 128 + (c % 64)>>

RECURSIVE str_of(_)
str_of(cs) == IF cs = <<>> THEN <<>> ELSE encode_utf8(Head(cs)) \o str_of(Tail(cs))

CharSeqs == UNION {[1..k -> Chars] : k \in 0..MaxStrChars}
Strs == {str_of(cs) : cs \in CharSeqs}

\* ---------------------------------------------------------------- values
NoSw == [len |-> 0, buffer |-> <<>>]
Ret(tag, a, b, w) == [tag |-> tag, a |-> a, b |-> b, sw |-> w]
RetOk == Ret("Ok", 0, 0, NoSw)
RetPanic == Ret("Panic", 0, 0, NoSw)
InsufficientLength(expected, actual) == Ret("InsufficientLength", expected, actual, NoSw)
Call(op, c, s, n, ret) == [op |-> op, c |-> c, s |-> s, n |-> n, ret |-> ret]

\* ---------------------------------------------------------------- helpers
starts_well_formed_utf8_sequence(byte) == ~(byte >= 128 /\ byte < 192)

\* copy_memory that moves nothing
copy_memory_lost(src, buffer, off) == buffer

\* copy_memory(src, &mut buffer[off..]): src over dst's first Len(src) bytes
copy_memory(src, buffer, off) ==
  [i \in 1..Len(buffer) |->
     IF i > off /\ i <= off + Len(src) THEN src[i - off] ELSE buffer[i]]

\* ---------------------------------------------------------------- StringWrapper
new(buffer) == [len |-> 0, buffer |-> buffer]

capacity(w) == Len(w.buffer)

extra_capacity(w) == capacity(w) - w.len

\* a view of the whole storage
Deref_storage(w) == w.buffer

Deref(w) == SubSeq(w.buffer, 1, w.len)

\* truncate without the boundary assertion
truncate_unchecked(w, new_len) ==
  IF ~(new_len <= w.len) THEN [sw |-> w, ret |-> RetPanic]
  ELSE [sw |-> [w EXCEPT !.len = new_len], ret |-> RetOk]

truncate(w, new_len) ==
  IF ~(new_len <= w.len) THEN [sw |-> w, ret |-> RetPanic]
  ELSE IF new_len < w.len /\ ~starts_well_formed_utf8_sequence(w.buffer[new_len + 1])
    THEN [sw |-> w, ret |-> RetPanic]
  ELSE [sw |-> [w EXCEPT !.len = new_len], ret |-> RetOk]

\* push with `<` for `<=`
push_strict(w, c) ==
  LET new_len == w.len + len_utf8(c) IN
  IF new_len < capacity(w)
    THEN [sw |-> [len |-> new_len,
                  buffer |-> copy_memory(encode_utf8(c), w.buffer, w.len)],
          ret |-> RetOk]
    ELSE [sw |-> w, ret |-> InsufficientLength(new_len, capacity(w))]

push(w, c) ==
  LET new_len == w.len + len_utf8(c) IN
  IF new_len <= capacity(w)
    THEN [sw |-> [len |-> new_len,
                  buffer |-> copy_memory(encode_utf8(c), w.buffer, w.len)],
          ret |-> RetOk]
    ELSE [sw |-> w, ret |-> InsufficientLength(new_len, capacity(w))]

\* push_str that tests the capacity, not the extra capacity
push_str_capacity(w, s) ==
  IF capacity(w) < Len(s)
    THEN [sw |-> w, ret |-> InsufficientLength(Len(s), extra_capacity(w))]
    ELSE [sw |-> [len |-> w.len + Len(s),
                  buffer |-> copy_memory(s, w.buffer, w.len)],
          ret |-> RetOk]

\* push_str that reports the post-append total, as push does
push_str_total(w, s) ==
  IF extra_capacity(w) < Len(s)
    THEN [sw |-> w, ret |-> InsufficientLength(w.len + Len(s), capacity(w))]
    ELSE [sw |-> [len |-> w.len + Len(s),
                  buffer |-> copy_memory(s, w.buffer, w.len)],
          ret |-> RetOk]

push_str(w, s) ==
  IF extra_capacity(w) < Len(s)
    THEN [sw |-> w, ret |-> InsufficientLength(Len(s), extra_capacity(w))]
    ELSE [sw |-> [len |-> w.len + Len(s),
                  buffer |-> copy_memory(s, w.buffer, w.len)],
          ret |-> RetOk]

\* the loop left out: cut at the extra capacity
trim_none(s, i) == i

\* the loop stopping at ASCII bytes only, leading bytes passed over
RECURSIVE trim_ascii(_, _)
trim_ascii(s, i) ==
  IF s[i + 1] < 128 THEN i
  ELSE IF i = 0 THEN -1
  ELSE trim_ascii(s, i - 1)

\* the loop of push_partial_str; -1 stands for the panic of `i -= 1` at 0
RECURSIVE trim(_, _)
trim(s, i) ==
  IF starts_well_formed_utf8_sequence(s[i + 1]) THEN i
  ELSE IF i = 0 THEN -1
  ELSE trim(s, i - 1)

\* the values i takes in the loop of push_partial_str, in order: every one
\* but the last is followed by `i -= 1`, and -1 is the underflow at 0
RECURSIVE trim_trace(_, _)
trim_trace(s, i) ==
  IF starts_well_formed_utf8_sequence(s[i + 1]) THEN <<i>>
  ELSE IF i = 0 THEN <<i, -1>>
  ELSE <<i>> \o trim_trace(s, i - 1)

\* push_partial_str reporting the bytes left over instead of the bytes pushed
push_partial_str_rest(w, s) ==
  LET i0 == extra_capacity(w) IN
  IF i0 < Len(s)
    THEN LET i == trim(s, i0) IN
         IF i < 0 THEN [sw |-> w, ret |-> RetPanic]
         ELSE LET r == push_str(w, SubSeq(s, 1, i)) IN
              IF r.ret.tag # "Ok" THEN [sw |-> r.sw, ret |-> RetPanic]
              ELSE [sw |-> r.sw, ret |-> Ret("Err", Len(s) - i, 0, NoSw)]
    ELSE LET r == push_str(w, s) IN
         IF r.ret.tag # "Ok" THEN [sw |-> r.sw, ret |-> RetPanic]
         ELSE [sw |-> r.sw, ret |-> RetOk]

push_partial_str(w, s) ==
  LET i0 == extra_capacity(w) IN
  IF i0 < Len(s)
    THEN LET i == trim(s, i0) IN
         IF i < 0 THEN [sw |-> w, ret |-> RetPanic]
         ELSE LET r == push_str(w, SubSeq(s, 1, i)) IN
              IF r.ret.tag # "Ok" THEN [sw |-> r.sw, ret |-> RetPanic]
              ELSE [sw |-> r.sw, ret |-> Ret("Err", i, 0, NoSw)]
    ELSE LET r == push_str(w, s) IN
         IF r.ret.tag # "Ok" THEN [sw |-> r.sw, ret |-> RetPanic]
         ELSE [sw |-> r.sw, ret |-> RetOk]

\* OwnedBuffer::new() for [u8; N]
OwnedBuffer_new(N) == [i \in 1..N |-> 0]

\* from_str built on the partial append
from_str_partial(N, s) ==
  LET r == push_partial_str(new(OwnedBuffer_new(N)), s) IN
  IF r.ret.tag = "Panic" THEN RetPanic ELSE Ret("Ok", 0, 0, r.sw)

from_str(N, s) ==
  LET r == push_str(new(OwnedBuffer_new(N)), s) IN
  IF r.ret.tag = "Ok" THEN Ret("Ok", 0, 0, r.sw) ELSE r.ret

\* from_str_safe that keeps the partly filled string
from_str_safe_keep(N, s) ==
  LET r == push_partial_str(new(OwnedBuffer_new(N)), s) IN
  IF r.ret.tag = "Panic" THEN RetPanic ELSE Ret("Some", 0, 0, r.sw)

from_str_safe(N, s) ==
  LET r == push_partial_str(new(OwnedBuffer_new(N)), s) IN
  IF r.ret.tag = "Panic" THEN RetPanic
  ELSE IF r.ret.tag = "Ok" THEN Ret("Some", 0, 0, r.sw)
  ELSE Ret("None", 0, 0, NoSw)

\* ---------------------------------------------------------------- comparison
eq(a, b) == Deref(a) = Deref(b)

RECURSIVE cmp_from(_, _, _)
cmp_from(x, y, i) ==
  IF i > Len(x) \/ i > Len(y)
    THEN IF Len(x) < Len(y) THEN "Less"
         ELSE IF Len(x) > Len(y) THEN "Greater" ELSE "Equal"
  ELSE IF x[i] < y[i] THEN "Less"
  ELSE IF x[i] > y[i] THEN "Greater"
  ELSE cmp_from(x, y, i + 1)

cmp(a, b) == cmp_from(Deref(a), Deref(b), 1)

partial_cmp(a, b) == cmp(a, b)

\* what Hash::hash feeds the hasher: the str bytes, then 0xff
hash(w) == Deref(w) \o <<255>>

\* ---------------------------------------------------------------- actions
Buffers(maxcap) == UNION {[1..k -> InitBytes] : k \in 0..maxcap}

Init ==
  /\ sw \in {new(b) : b \in Buffers(MaxCap)}
  /\ other = new(<<>>)
  /\ last = Call("new", 0, <<>>, 0, RetOk)

Push ==
  \E c \in Chars :
    LET r == push(sw, c) IN
    /\ sw' = r.sw
    /\ last' = Call("push", c, <<>>, 0, r.ret)
    /\ UNCHANGED other

PushStr ==
  \E s \in Strs :
    LET r == push_str(sw, s) IN
    /\ sw' = r.sw
    /\ last' = Call("push_str", 0, s, 0, r.ret)
    /\ UNCHANGED other

PushPartialStr ==
  \E s \in Strs :
    LET r == push_partial_str(sw, s) IN
    /\ sw' = r.sw
    /\ last' = Call("push_partial_str", 0, s, 0, r.ret)
    /\ UNCHANGED other

Truncate ==
  \E n \in 0..(MaxCap + 1) :
    LET r == truncate(sw, n) IN
    /\ sw' = r.sw
    /\ last' = Call("truncate", 0, <<>>, n, r.ret)
    /\ UNCHANGED other

\* T is the wrapper's own buffer type [u8; N]
FromStr ==
  \E s \in Strs :
    /\ last' = Call("from_str", 0, s, capacity(sw), from_str(capacity(sw), s))
    /\ UNCHANGED <<sw, other>>

FromStrSafe ==
  \E s \in Strs :
    /\ last' = Call("from_str_safe", 0, s, capacity(sw), from_str_safe(capacity(sw), s))
    /\ UNCHANGED <<sw, other>>

Next == Push \/ PushStr \/ PushPartialStr \/ Truncate \/ FromStr \/ FromStrSafe

Spec == Init /\ [][Next]_vars

\* two values side by side, for the comparison traits
InitCmp ==
  /\ sw \in {new(b) : b \in Buffers(CmpCap)}
  /\ other \in {new(b) : b \in Buffers(CmpCap)}
  /\ last = Call("new", 0, <<>>, 0, RetOk)

OtherPush ==
  \E c \in Chars :
    LET r == push(other, c) IN
    /\ other' = r.sw
    /\ last' = Call("other.push", c, <<>>, 0, r.ret)
    /\ UNCHANGED sw

OtherTruncate ==
  \E n \in 0..(CmpCap + 1) :
    LET r == truncate(other, n) IN
    /\ other' = r.sw
    /\ last' = Call("other.truncate", 0, <<>>, n, r.ret)
    /\ UNCHANGED sw

NextCmp == Push \/ Truncate \/ OtherPush \/ OtherTruncate

SpecCmp == InitCmp /\ [][NextCmp]_vars

\* ---------------------------------------------------------------- UTF-8
\* Well-formed UTF-8 byte sequences (Unicode, table 3-7)
IsCont(b) == b >= 128 /\ b <= 191

RECURSIVE WellFormedFrom(_, _)
WellFormedFrom(b, i) ==
  IF i > Len(b) THEN TRUE
  ELSE LET x == b[i] IN
    IF x < 128 THEN WellFormedFrom(b, i + 1)
    ELSE IF x >= 194 /\ x <= 223 THEN
      /\ i + 1 <= Len(b)
      /\ IsCont(b[i + 1])
      /\ WellFormedFrom(b, i + 2)
    ELSE IF x >= 224 /\ x <= 239 THEN
      /\ i + 2 <= Len(b)
      /\ IsCont(b[i + 1])
      /\ (x = 224 => b[i + 1] >= 160)
      /\ (x = 237 => b[i + 1] <= 159)
      /\ IsCont(b[i + 2])
      /\ WellFormedFrom(b, i + 3)
    ELSE IF x >= 240 /\ x <= 244 THEN
      /\ i + 3 <= Len(b)
      /\ IsCont(b[i + 1])
      /\ (x = 240 => b[i + 1] >= 144)
      /\ (x = 244 => b[i + 1] <= 143)
      /\ IsCont(b[i + 2])
      /\ IsCont(b[i + 3])
      /\ WellFormedFrom(b, i + 4)
    ELSE FALSE

WellFormedUtf8(b) == WellFormedFrom(b, 1)

\* the encodings of the chars of Chars, written out
Utf8Of(c) ==
  CASE c = 97 -> <<97>>
    [] c = 233 -> <<195, 169>>
    [] c = 8364 -> <<226, 130, 172>>
    [] c = 127776 -> <<240, 159, 140, 160>>

\* offsets 0..Len(s) of a well-formed s at which a code point ends
SeqLenOfLead(x) == IF x < 128 THEN 1 ELSE IF x < 224 THEN 2 ELSE IF x < 240 THEN 3 ELSE 4

RECURSIVE BoundariesFrom(_, _)
BoundariesFrom(s, k) ==
  IF k >= Len(s) THEN {k}
  ELSE {k} \cup BoundariesFrom(s, k + SeqLenOfLead(s[k + 1]))

Boundaries(s) == BoundariesFrom(s, 0)

SetMax(S) == CHOOSE m \in S : \A x \in S : x <= m

LongestFit(s, room) == SetMax({k \in Boundaries(s) : k <= room})

View(w) == [i \in 1..w.len |-> w.buffer[i]]

LexLess(x, y) ==
  \E k \in 0..Len(x) :
    /\ k <= Len(y)
    /\ \A i \in 1..k : x[i] = y[i]
    /\ \/ (k = Len(x) /\ k < Len(y))
       \/ (k < Len(x) /\ k < Len(y) /\ x[k + 1] < y[k + 1])

\* ---------------------------------------------------------------- claims
\* C1: after new(buffer) and any sequence of push, push_str,
\* push_partial_str and truncate calls, whatever each returns, the bytes
\* buffer[0..len) are well-formed UTF-8.
C1_LogicalViewWellFormed == WellFormedUtf8(View(sw))

\* a partial append stopped short of the capacity, in front of a stale
\* continuation byte
C1_Witness ==
  /\ last.op = "push_partial_str"
  /\ last.ret.tag = "Err"
  /\ sw.len > 0
  /\ sw.len < capacity(sw)
  /\ IsCont(sw.buffer[sw.len + 1])

\* C2: len <= capacity in every reachable state, extra_capacity() does not
\* underflow, and no call changes capacity().
C2_LenWithinCapacity ==
  [][/\ sw.len <= capacity(sw)
     /\ sw'.len <= capacity(sw')
     /\ extra_capacity(sw') >= 0
     /\ capacity(sw') = capacity(sw)]_vars

\* a full string whose last call was refused or panicked
C2_Witness ==
  /\ last.ret.tag \in {"InsufficientLength", "Panic"}
  /\ capacity(sw) > 0
  /\ sw.len = capacity(sw)

\* C3: push_partial_str(s) appends the longest prefix of s that ends on a
\* code-point boundary and fits the extra capacity; Ok(()) when all of s
\* fits, otherwise Err(n) with n the number of bytes pushed.
C3_PartialAppendsLongestFit ==
  [][last'.op = "push_partial_str" =>
       LET s == last'.s
           room == extra_capacity(sw)
           k == LongestFit(s, room)
       IN /\ View(sw') = View(sw) \o SubSeq(s, 1, k)
          /\ sw'.len = sw.len + k
          /\ (Len(s) <= room => k = Len(s) /\ last'.ret = RetOk)
          /\ (Len(s) > room => last'.ret = Ret("Err", k, 0, NoSw))]_vars

\* part of s was pushed and the string is still not full: the cut was moved
\* back to a boundary
C3_Witness ==
  /\ last.op = "push_partial_str"
  /\ last.ret.tag = "Err"
  /\ last.ret.a > 0
  /\ sw.len < capacity(sw)

\* C4 as stated: when push_partial_str cannot place all of s, the value it
\* returns is the number of bytes of s left unplaced.
C4_ErrCountsUnplacedBytes ==
  [][(last'.op = "push_partial_str" /\ last'.ret.tag = "Err") =>
       last'.ret.a = Len(last'.s) - (sw'.len - sw.len)]_vars

\* C4, amended: when push_partial_str cannot place all of s, the value it
\* returns is the number of bytes of s it pushed, which is less than s.len().
C4_ErrCountsPushedBytes ==
  [][(last'.op = "push_partial_str" /\ last'.ret.tag = "Err") =>
       /\ last'.ret.a = sw'.len - sw.len
       /\ last'.ret.a < Len(last'.s)
       /\ last'.ret.a <= extra_capacity(sw)]_vars

\* a cut where the pushed and the unplaced byte counts differ
C4_Witness ==
  /\ last.op = "push_partial_str"
  /\ last.ret.tag = "Err"
  /\ last.ret.a > 0
  /\ last.ret.a # Len(last.s) - last.ret.a

C7_FromStrSafeNeverFails ==
  last.op = "from_str_safe" =>
    /\ last.ret.tag = "Some"
    /\ View(last.ret.sw) = SubSeq(last.s, 1, LongestFit(last.s, last.n))

\* C7, amended: from_str_safe(text) returns Some of a string whose logical
\* view is text when text.len() <= capacity, and None, discarding the partly
\* filled string, when text is longer than the capacity.
C7_FromStrSafeSomeIffFits ==
  last.op = "from_str_safe" =>
    IF Len(last.s) <= last.n
      THEN /\ last.ret.tag = "Some"
           /\ View(last.ret.sw) = last.s
           /\ capacity(last.ret.sw) = last.n
      ELSE last.ret = Ret("None", 0, 0, NoSw)

\* a text longer than a non-zero capacity
C7_Witness ==
  /\ last.op = "from_str_safe"
  /\ last.n > 0
  /\ Len(last.s) > last.n
  /\ last.ret.tag = "None"

\* C8: truncate(new_len) panics, leaving len unchanged, when new_len > len or
\* when new_len < len and buffer[new_len] is a continuation byte; otherwise
\* it sets len to new_len and leaves the buffer bytes and the capacity alone.
C8_Truncate ==
  [][last'.op = "truncate" =>
       LET n == last'.n IN
       IF n > sw.len \/ (n < sw.len /\ IsCont(sw.buffer[n + 1]))
         THEN last'.ret = RetPanic /\ sw' = sw
         ELSE /\ last'.ret = RetOk
              /\ sw'.len = n
              /\ sw'.buffer = sw.buffer]_vars

\* a truncation that left a multi-byte char beyond len
C8_Witness ==
  /\ last.op = "truncate"
  /\ last.ret.tag = "Ok"
  /\ sw.len < capacity(sw)
  /\ sw.len = last.n
  /\ sw.buffer[sw.len + 1] >= 192

\* C9: eq, cmp, partial_cmp and hash of two values depend on the logical
\* views only: the values are equal, compare Equal and hash alike iff the
\* views are the same bytes, and otherwise cmp is the lexicographic byte
\* order of the views.
C9_ComparisonOnLogicalView ==
  LET x == View(sw)
      y == View(other)
  IN /\ eq(sw, other) <=> x = y
     /\ cmp(sw, other) = "Equal" <=> x = y
     /\ partial_cmp(sw, other) = cmp(sw, other)
     /\ hash(sw) = hash(other) <=> x = y
     /\ x # y => cmp(sw, other) = (IF LexLess(x, y) THEN "Less" ELSE "Greater")
     /\ x # y => (LexLess(x, y) <=> ~LexLess(y, x))

\* the same non-empty text over storage that differs beyond len
C9_Witness ==
  /\ sw.len > 0
  /\ View(sw) = View(other)
  /\ sw.buffer # other.buffer
  /\ capacity(sw) = capacity(other)

C11_TrimLoopBounded ==
  [][(last'.op = "push_partial_str" /\ extra_capacity(sw) < Len(last'.s)) =>
       LET s == last'.s
           room == extra_capacity(sw)
           tr == trim_trace(s, room)
       IN /\ last'.ret.tag = "Err"
          /\ Len(tr) - 1 <= 3
          /\ \A k \in 1..Len(tr) : tr[k] >= 0 /\ tr[k] < Len(s)
          /\ \A k \in 1..(Len(tr) - 1) : IsCont(s[tr[k] + 1])
          /\ last'.ret.a = tr[Len(tr)]
          /\ room - 3 <= last'.ret.a
          /\ last'.ret.a <= room]_vars

\* a cut that took three decrements: three bytes of room are left unused
C11_Witness ==
  /\ last.op = "push_partial_str"
  /\ last.ret.tag = "Err"
  /\ Len(last.s) > last.ret.a + 3
  /\ capacity(sw) - sw.len = 3
  /\ IsCont(last.s[last.ret.a + 2])
  /\ IsCont(last.s[last.ret.a + 3])
  /\ IsCont(last.s[last.ret.a + 4])
====
